---- MODULE Spec2Model ----
(***************************************************************************)
(* Model of buildlib/generic.py (class GenericPlatform): the source        *)
(* acquisition pipeline (setup_chromium_source with _check_source_archive  *)
(* and _extract_source_archive), the domain regex parser, the domain       *)
(* substitution engine and the patch assembler.                            *)
(*                                                                         *)
(* Byte strings and text are sequences of one-character strings.  Each     *)
(* public entry point has its own specification over the shared variables; *)
(* the variables of the other entry points stay at their initial values.   *)
(***************************************************************************)
EXTENDS Integers, Sequences, FiniteSets, TLC

VARIABLES
    pc,              \* position inside the entry point being run
    exception,       \* message of the exception that ended the call, or "none"
    args,            \* keyword arguments of setup_chromium_source
    archive_file,    \* what is at self.sourcearchive: "absent", "file", "dir"
    hashes_file,     \* what is at self.sourcearchive_hashes
    downloaded,      \* which of "archive", "hashes" this call downloaded
    manifest,        \* the lines of the hashes file as _check_source_archive read them
    hash_lines,      \* _check_source_archive: manifest lines not yet visited
    check_ret,       \* _check_source_archive: "pending" or the returned value
    hash_errors,     \* logger.error records of _check_source_archive
    hash_skipped,    \* logger.warning records (algorithm not available)
    tar_rest,        \* _extract_source_archive: members not yet visited
    cleaning_list,   \* the list object handed to _extract_source_archive
    orig_list,       \* the cleaning list as _read_list_resource returned it
    tar_seen,        \* relative paths of the members visited so far
    sandbox,         \* relative paths materialized under sandbox_root
    skipped,         \* relative paths skipped because cleaning_list held them
    missing_report,  \* "File does not exist in tar file" warnings, in order
    regex_list,      \* _domain_substitute: the (pattern, replacement) pairs
    files,           \* the files under the sandbox: whether each opens, its bytes
    targets,         \* the paths the caller's file_list yields, in order
    file_list,       \* _domain_substitute: paths the loop has not reached yet
    log_warnings,    \* _domain_substitute: the log_warnings argument
    run,             \* how many times _domain_substitute was called on the files
    sub_log,         \* one record per loop iteration of _domain_substitute
    domain_regex_file,   \* lines of the domain_regex_list files (common, platform)
    domain_regex_cache,  \* self._domain_regex_cache: None, or the list built
    parse_calls,         \* calls of _get_parsed_domain_regexes so far
    PLATFORM_RESOURCES,  \* the class attribute: "None" or "set"
    platform_patches,    \* PLATFORM_RESOURCES/patches: "absent", "no_order", "with_order"
    common_order,        \* text of COMMON_RESOURCES/patches/patch_order
    platform_order,      \* text of the platform patch_order file
    run_domain_substitution, \* argument of _generate_patches
    out_files,           \* names of the files in output_dir
    out_order,           \* text of output_dir/patch_order (when it is in out_files)
    ran_domain_substitution  \* self._ran_domain_substitution

srcvars == <<args, archive_file, hashes_file, downloaded, manifest, hash_lines, check_ret,
             hash_errors, hash_skipped, tar_rest, cleaning_list, orig_list,
             tar_seen, sandbox, skipped, missing_report>>

subvars == <<regex_list, files, targets, file_list, log_warnings, run, sub_log>>

rxvars == <<domain_regex_file, domain_regex_cache, parse_calls>>

patchvars == <<PLATFORM_RESOURCES, platform_patches, common_order, platform_order,
               run_domain_substitution, out_files, out_order>>

sbvars == <<ran_domain_substitution>>

vars == <<pc, exception, srcvars, subvars, rxvars, patchvars, sbvars>>

(***************************************************************************)
(* Bounds of the model.                                                    *)
(***************************************************************************)
MaxManifestLines == 2
MaxMembers == 2
MaxListLines == 1
MaxPatternLen == 2
MaxReplacementLen == 1
MaxRules == 2
MaxContentLen == 2
MaxTargets == 2
MaxRuns == 2
MaxRegexLines == 2
MaxRegexLineLen == 3
MaxParseCalls == 2
MaxOrderLen == 2

(***************************************************************************)
(* Generic helpers.                                                        *)
(***************************************************************************)
SeqsUpTo(S, n) == UNION {[1..k -> S] : k \in 0..n}

Range(s) == {s[i] : i \in 1..Len(s)}

\* list.remove(x): drops the first occurrence of x
RemoveFirst(s, x) ==
    LET i == CHOOSE k \in 1..Len(s) : s[k] = x /\ \A j \in 1..(k - 1) : s[j] # x
    IN  SubSeq(s, 1, i - 1) \o SubSeq(s, i + 1, Len(s))

(***************************************************************************)
(* _read_list_resource: common lines, then the platform lines when         *)
(* PLATFORM_RESOURCES is set and the platform file exists; empty lines     *)
(* are dropped, nothing is deduplicated.                                   *)
(***************************************************************************)
\* platform.exists: PLATFORM_RESOURCES is set and holds the file
NoPlatformFile == [exists |-> FALSE, lines |-> <<>>]

ReadListResource(common_lines, platform) ==
    LET tmp_list == IF platform.exists
                    THEN common_lines \o platform.lines
                    ELSE common_lines
    IN  SelectSeq(tmp_list, LAMBDA x : Len(x) > 0)

(***************************************************************************)
(* Inputs of the acquisition pipeline.                                     *)
(***************************************************************************)
\* hashlib.algorithms_available, and the algorithm names a manifest may use
algorithms_available == {"md5", "sha256"}

\* hasher.hexdigest() of the source archive: lowercase hexadecimal digits
Hexdigest(algorithm) ==
    IF algorithm = "md5" THEN <<"a", "1">> ELSE <<"b", "2">>

\* the digests a manifest may state: each true digest, and the same digest
\* written with upper-case hexadecimal letters
ManifestDigests == {<<"a", "1">>, <<"A", "1">>, <<"b", "2">>, <<"B", "2">>}

\* a manifest line after split("  "): algorithm and digest, the single empty
\* field of a blank line, or an algorithm with nothing after it
ManifestLines ==
    {<<a, d>> : a \in algorithms_available, d \in ManifestDigests}
        \cup {<<"whirlpool", <<"b", "2">>>>, <<"">>, <<"md5">>}

Manifests == SeqsUpTo(ManifestLines, MaxManifestLines)

\* tar member names; the archive root is chromium-{version}
TarNames == {"chromium-55/a", "chromium-55/b", "depot/a"}

UnderRoot(name) == name \in {"chromium-55/a", "chromium-55/b"}

\* PurePosixPath(tarinfo.name).relative_to("chromium-{version}"), as a string
RelativePath(name) == IF name = "chromium-55/b" THEN "b" ELSE "a"

Archives == SeqsUpTo(TarNames, MaxMembers)

\* lines of a cleaning_list file: a relative path, or an empty line
ListLines == {<<"a">>, <<"b">>, <<>>}

ListFiles == SeqsUpTo(ListLines, MaxListLines)

PlatformListFiles ==
    {NoPlatformFile} \cup {[exists |-> TRUE, lines |-> l] : l \in ListFiles}

ArgSets ==
    [check_if_exists : BOOLEAN, force_download : BOOLEAN,
     check_integrity : BOOLEAN, extract_archive : BOOLEAN,
     use_cleaning_list : BOOLEAN,
     archive_path : {"None", "given"}, hashes_path : {"None", "given"}]

FileStates == {"absent", "file", "dir"}

(***************************************************************************)
(* setup_chromium_source                                                   *)
(***************************************************************************)
Raise(message) ==
    /\ pc' = "error"
    /\ exception' = message

\* the condition of lines 311 and 320
MustDownload(a, file_state) ==
    a.force_download \/ (a.check_if_exists /\ file_state # "file")

\* lines 302-332: argument checks, the two paths, the two downloads
SetupAcquire ==
    /\ UNCHANGED <<subvars, rxvars, patchvars, sbvars>>
    /\ pc = "start"
    /\ UNCHANGED <<args, manifest, hash_lines, check_ret, hash_errors, hash_skipped,
                   tar_rest, cleaning_list, orig_list, tar_seen, sandbox,
                   skipped, missing_report>>
    /\ IF args.archive_path = "None"
       THEN IF args.check_if_exists /\ args.force_download
            THEN /\ Raise("Conflicting arguments: check_if_exists and force_download")
                 /\ UNCHANGED <<archive_file, hashes_file, downloaded>>
            ELSE IF archive_file = "dir"
            THEN /\ Raise("sourcearchive is an existing non-file")
                 /\ UNCHANGED <<archive_file, hashes_file, downloaded>>
            ELSE LET get_archive == MustDownload(args, archive_file)
                     new_archive == IF get_archive THEN "file" ELSE archive_file
                     got_archive == IF get_archive THEN {"archive"} ELSE {}
                 IN  IF ~args.check_integrity
                     THEN /\ archive_file' = new_archive
                          /\ downloaded' = got_archive
                          /\ UNCHANGED <<hashes_file, exception>>
                          /\ pc' = "integrity"
                     ELSE IF hashes_file = "dir"
                     THEN /\ archive_file' = new_archive
                          /\ downloaded' = got_archive
                          /\ UNCHANGED hashes_file
                          /\ Raise("sourcearchive_hashes is an existing non-file")
                     ELSE LET get_hashes == MustDownload(args, hashes_file)
                          IN  /\ archive_file' = new_archive
                              /\ hashes_file' =
                                     IF get_hashes THEN "file" ELSE hashes_file
                              /\ downloaded' = got_archive \cup
                                     (IF get_hashes THEN {"hashes"} ELSE {})
                              /\ UNCHANGED exception
                              /\ pc' = "integrity"
       ELSE /\ UNCHANGED <<archive_file, hashes_file, downloaded>>
            /\ IF args.check_integrity /\ args.hashes_path = "None"
               THEN Raise("Hashes path must be set with archive_path")
               ELSE IF args.force_download
               THEN Raise("Conflicting arguments: force_download with archive_path and hashes_path")
               ELSE /\ pc' = "integrity"
                    /\ UNCHANGED exception

\* lines 334-336 and 112-113: enter _check_source_archive, read the manifest
IntegrityStage ==
    /\ UNCHANGED <<subvars, rxvars, patchvars, sbvars>>
    /\ pc = "integrity"
    /\ UNCHANGED <<args, archive_file, hashes_file, downloaded, check_ret,
                   hash_errors, hash_skipped, tar_rest, cleaning_list,
                   orig_list, tar_seen, sandbox, skipped, missing_report>>
    /\ IF ~args.check_integrity
       THEN /\ pc' = "extraction"
            /\ UNCHANGED <<exception, manifest, hash_lines>>
       ELSE IF hashes_file # "file"
       THEN /\ Raise("cannot open sourcearchive_hashes")
            /\ UNCHANGED <<manifest, hash_lines>>
       ELSE /\ \E m \in Manifests :
                 /\ manifest' = m
                 /\ hash_lines' = m
            /\ pc' = "check"
            /\ UNCHANGED exception

\* the comparison of line 120
DigestMatches(computed, expected) == computed = expected

\* lines 113-126: one iteration of the loop over the manifest lines
CheckHashLine ==
    /\ UNCHANGED <<subvars, rxvars, patchvars, sbvars>>
    /\ pc = "check"
    /\ hash_lines # <<>>
    /\ UNCHANGED <<args, archive_file, hashes_file, downloaded, manifest,
                   tar_rest, cleaning_list, orig_list, tar_seen, sandbox,
                   skipped, missing_report>>
    /\ LET hash_line == Head(hash_lines)
       IN  IF hash_line[1] \in algorithms_available
           THEN IF archive_file # "file"
                THEN /\ Raise("cannot open sourcearchive")
                     /\ UNCHANGED <<hash_lines, check_ret, hash_errors, hash_skipped>>
                ELSE IF Len(hash_line) < 2
                THEN /\ Raise("IndexError: list index out of range")
                     /\ UNCHANGED <<hash_lines, check_ret, hash_errors, hash_skipped>>
                ELSE IF DigestMatches(Hexdigest(hash_line[1]), hash_line[2])
                THEN /\ hash_lines' = Tail(hash_lines)
                     /\ UNCHANGED <<pc, exception, check_ret, hash_errors, hash_skipped>>
                ELSE /\ hash_errors' = Append(hash_errors,
                            [algorithm |-> hash_line[1], hashhex |-> hash_line[2]])
                     /\ check_ret' = "None"
                     /\ hash_lines' = <<>>
                     /\ pc' = "extraction"
                     /\ UNCHANGED <<exception, hash_skipped>>
           ELSE /\ hash_skipped' = Append(hash_skipped, hash_line[1])
                /\ hash_lines' = Tail(hash_lines)
                /\ UNCHANGED <<pc, exception, check_ret, hash_errors>>

\* the loop of line 113 is exhausted: the function falls off its end
CheckReturn ==
    /\ UNCHANGED <<subvars, rxvars, patchvars, sbvars>>
    /\ pc = "check"
    /\ hash_lines = <<>>
    /\ check_ret' = "None"
    /\ pc' = "extraction"
    /\ UNCHANGED <<exception, args, archive_file, hashes_file, downloaded,
                   manifest, hash_lines, hash_errors, hash_skipped, tar_rest,
                   cleaning_list, orig_list, tar_seen, sandbox, skipped,
                   missing_report>>

\* lines 338-346 and 152-153: read the cleaning list, open the archive
ExtractionStage ==
    /\ UNCHANGED <<subvars, rxvars, patchvars, sbvars>>
    /\ pc = "extraction"
    /\ UNCHANGED <<args, archive_file, hashes_file, downloaded, manifest, hash_lines,
                   check_ret, hash_errors, hash_skipped, tar_seen, sandbox,
                   skipped, missing_report>>
    /\ IF ~args.extract_archive
       THEN /\ pc' = "done"
            /\ UNCHANGED <<exception, tar_rest, cleaning_list, orig_list>>
       ELSE \E common \in ListFiles, platform \in PlatformListFiles :
              LET list_obj == IF args.use_cleaning_list
                              THEN ReadListResource(common, platform)
                              ELSE <<>>
              IN  /\ PLATFORM_RESOURCES = "None" => platform = NoPlatformFile
                  /\ cleaning_list' = list_obj
                  /\ orig_list' = list_obj
                  /\ IF archive_file # "file"
                     THEN /\ Raise("cannot open sourcearchive")
                          /\ UNCHANGED tar_rest
                     ELSE /\ \E archive \in Archives : tar_rest' = archive
                          /\ pc' = "extract"
                          /\ UNCHANGED exception

\* lines 154-164: one iteration of the loop over the tar members
ExtractMember ==
    /\ UNCHANGED <<subvars, rxvars, patchvars, sbvars>>
    /\ pc = "extract"
    /\ tar_rest # <<>>
    /\ UNCHANGED <<args, archive_file, hashes_file, downloaded, manifest, hash_lines,
                   check_ret, hash_errors, hash_skipped, orig_list,
                   missing_report>>
    /\ LET tarinfo == Head(tar_rest)
       IN  IF ~UnderRoot(tarinfo)
           THEN /\ Raise("ValueError: member is not under the archive root")
                /\ UNCHANGED <<tar_rest, cleaning_list, tar_seen, sandbox, skipped>>
           ELSE LET relative_path == <<RelativePath(tarinfo)>>
                IN  /\ tar_rest' = Tail(tar_rest)
                    /\ tar_seen' = tar_seen \cup {relative_path}
                    /\ UNCHANGED <<pc, exception>>
                    /\ IF relative_path \in Range(cleaning_list)
                       THEN /\ cleaning_list' = RemoveFirst(cleaning_list, relative_path)
                            /\ skipped' = skipped \cup {relative_path}
                            /\ UNCHANGED sandbox
                       ELSE /\ sandbox' = sandbox \cup {relative_path}
                            /\ UNCHANGED <<cleaning_list, skipped>>

\* lines 161-164: _extract_member raises; the error is logged and re-raised
ExtractMemberFails ==
    /\ pc = "extract"
    /\ tar_rest # <<>>
    /\ UnderRoot(Head(tar_rest))
    /\ <<RelativePath(Head(tar_rest))>> \notin Range(cleaning_list)
    /\ Raise("OSError while extracting a member")
    /\ UNCHANGED <<srcvars, subvars, rxvars, patchvars, sbvars>>

\* lines 343-344: the archive is exhausted; the caller reports the leftovers
ExtractReturn ==
    /\ UNCHANGED <<subvars, rxvars, patchvars, sbvars>>
    /\ pc = "extract"
    /\ tar_rest = <<>>
    /\ missing_report' = IF args.use_cleaning_list THEN cleaning_list ELSE <<>>
    /\ pc' = "done"
    /\ UNCHANGED <<exception, args, archive_file, hashes_file, downloaded,
                   manifest, hash_lines, check_ret, hash_errors, hash_skipped, tar_rest,
                   cleaning_list, orig_list, tar_seen, sandbox, skipped>>

\* lines 89-90: no regex list parsed yet
RegexIdle ==
    /\ domain_regex_file = [common |-> <<>>, platform |-> NoPlatformFile]
    /\ domain_regex_cache = [parsed |-> FALSE, rules |-> <<>>]
    /\ parse_calls = 0

\* line 89: no domain substitution has run over the build sandbox
SandboxIdle == ran_domain_substitution = FALSE

\* the state of a GenericPlatform on which _generate_patches has not run
PatchIdle ==
    /\ PLATFORM_RESOURCES = "None"
    /\ platform_patches = "absent"
    /\ common_order = <<>>
    /\ platform_order = <<>>
    /\ run_domain_substitution = FALSE
    /\ out_files = {}
    /\ out_order = <<>>

\* the state of a GenericPlatform on which _domain_substitute has not run
SubstIdle ==
    /\ regex_list = <<>>
    /\ files = <<>>
    /\ targets = <<>>
    /\ file_list = <<>>
    /\ log_warnings = TRUE
    /\ run = 0
    /\ sub_log = <<>>

\* the state of a GenericPlatform on which setup_chromium_source has not run
SourceIdle ==
    /\ archive_file = "absent"
    /\ hashes_file = "absent"
    /\ downloaded = {}
    /\ manifest = <<>>
    /\ hash_lines = <<>>
    /\ check_ret = "pending"
    /\ hash_errors = <<>>
    /\ hash_skipped = <<>>
    /\ tar_rest = <<>>
    /\ cleaning_list = <<>>
    /\ orig_list = <<>>
    /\ tar_seen = {}
    /\ sandbox = {}
    /\ skipped = {}
    /\ missing_report = <<>>

SourceInit ==
    /\ pc = "start"
    /\ exception = "none"
    /\ SubstIdle
    /\ RegexIdle
    /\ PLATFORM_RESOURCES \in {"None", "set"}
    /\ platform_patches = "absent"
    /\ common_order = <<>>
    /\ platform_order = <<>>
    /\ run_domain_substitution = FALSE
    /\ out_files = {}
    /\ out_order = <<>>
    /\ SandboxIdle
    /\ args \in ArgSets
    /\ archive_file \in FileStates
    /\ hashes_file \in FileStates
    /\ downloaded = {}
    /\ manifest = <<>>
    /\ hash_lines = <<>>
    /\ check_ret = "pending"
    /\ hash_errors = <<>>
    /\ hash_skipped = <<>>
    /\ tar_rest = <<>>
    /\ cleaning_list = <<>>
    /\ orig_list = <<>>
    /\ tar_seen = {}
    /\ sandbox = {}
    /\ skipped = {}
    /\ missing_report = <<>>

Init == SourceInit

Next ==
    \/ SetupAcquire
    \/ IntegrityStage
    \/ CheckHashLine
    \/ CheckReturn
    \/ ExtractionStage
    \/ ExtractMember
    \/ ExtractMemberFails
    \/ ExtractReturn

Spec == Init /\ [][Next]_vars

(***************************************************************************)
(* Claims about setup_chromium_source, _check_source_archive and           *)
(* _extract_source_archive, verified under Spec.                           *)
(***************************************************************************)
\* str.lower() on one hexadecimal digit, and on a digest
LowerDigit(c) == IF c = "A" THEN "a" ELSE IF c = "B" THEN "b" ELSE c

Lower(digest) == [i \in 1..Len(digest) |-> LowerDigit(digest[i])]

\* line i of manifest m names an available algorithm and a digest that is
\* not the archive's digest, whatever the letter case
MismatchLine(m, i) ==
    /\ m[i][1] \in algorithms_available
    /\ Len(m[i]) >= 2
    /\ Lower(m[i][2]) # Hexdigest(m[i][1])

HasMismatch(m) == \E i \in 1..Len(m) : MismatchLine(m, i)

\* C1: with check_integrity and extract_archive both True, a manifest that
\* holds a line of an available algorithm whose digest differs from the
\* archive's digest stops the run before anything is extracted: the sandbox
\* stays empty.
C1_MismatchIsFatal ==
    (args.check_integrity /\ args.extract_archive /\ HasMismatch(manifest))
        => sandbox = {}

\* the value _check_source_archive returns when every line was accepted
ReturnedOnSuccess == "None"

\* C2: once _check_source_archive has returned, a run that logged no
\* mismatch returned the success value, and a run that logged a mismatch
\* returned a value different from the success value, the logged record
\* naming the algorithm of the mismatching line.
C2_OutcomeTellsFailure ==
    check_ret # "pending" =>
        /\ hash_errors = <<>> => check_ret = ReturnedOnSuccess
        /\ hash_errors # <<>> =>
              /\ check_ret # ReturnedOnSuccess
              /\ \E i \in 1..Len(manifest) :
                    /\ Len(manifest[i]) >= 2
                    /\ manifest[i][1] = hash_errors[1].algorithm
                    /\ manifest[i][2] = hash_errors[1].hashhex

\* C3: when _extract_source_archive has completed, the extracted paths and
\* the skipped paths are disjoint, together they are the relative paths of
\* all members, and no path of the cleaning list is in the sandbox.
C3_ExtractedSkippedPartition ==
    (pc = "done" /\ args.extract_archive) =>
        /\ sandbox \cap skipped = {}
        /\ sandbox \cup skipped = tar_seen
        /\ sandbox \cap Range(orig_list) = {}

\* C4: when _extract_source_archive has completed, cleaning_list holds
\* exactly the originally listed entries whose path never occurred in the
\* archive, and these are the entries reported as missing from the tar file.
C4_LeftoverIsNeverObserved ==
    (pc = "done" /\ args.extract_archive /\ args.use_cleaning_list) =>
        /\ cleaning_list = SelectSeq(orig_list, LAMBDA x : x \notin tar_seen)
        /\ missing_report = cleaning_list

\* C8: with archive_path=None and force_download=True, whatever
\* check_if_exists is and whether or not the archive file exists, the
\* archive is downloaded and the call does not end in the
\* conflicting-arguments error.
C8_ForceDownloadOverrides ==
    (/\ pc # "start"
     /\ args.archive_path = "None"
     /\ args.force_download
     /\ archive_file # "dir"
     /\ hashes_file # "dir") =>
        /\ "archive" \in downloaded
        /\ exception # "Conflicting arguments: check_if_exists and force_download"

\* C10: a manifest digest that equals the archive's digest up to the letter
\* case of its hexadecimal digits is never logged as a mismatch.
C10_CaseInsensitiveCompare ==
    \A i \in 1..Len(hash_errors) :
        Lower(hash_errors[i].hashhex) # Hexdigest(hash_errors[i].algorithm)

(***************************************************************************)
(* _domain_substitute                                                      *)
(*                                                                         *)
(* Patterns are non-empty literal byte strings (regular expressions with   *)
(* no metacharacter) and replacements are literal byte strings (templates  *)
(* with no backreference).                                                 *)
(***************************************************************************)
\* the bytes of file contents and patterns; replacements may use one more
Bytes == {"a", "b"}

ReplacementBytes == Bytes \cup {"c"}

Patterns == SeqsUpTo(Bytes, MaxPatternLen) \ {<<>>}

Replacements == SeqsUpTo(ReplacementBytes, MaxReplacementLen)

Rules == [pattern : Patterns, replacement : Replacements]

RuleLists == SeqsUpTo(Rules, MaxRules)

Contents == SeqsUpTo(Bytes, MaxContentLen)

Paths == {"f", "g"}

\* a path that cannot be opened in mode r+b has exists = FALSE
FileStatesOnDisk ==
    {[exists |-> FALSE, content |-> <<>>]}
        \cup {[exists |-> TRUE, content |-> c] : c \in Contents}

\* a file the caller's file_list does not name
UntargetedFile == [exists |-> TRUE, content |-> <<"a">>]

\* the pattern matches content at position i
MatchAt(pattern, content, i) ==
    /\ i + Len(pattern) - 1 <= Len(content)
    /\ SubSeq(content, i, i + Len(pattern) - 1) = pattern

\* compiled_regex.subn(replacement, content) from position i on: the
\* leftmost match is replaced and the scan resumes after it
RECURSIVE SubnFrom(_, _, _, _)
SubnFrom(pattern, replacement, content, i) ==
    IF i > Len(content)
    THEN [content |-> <<>>, number_of_subs |-> 0]
    ELSE IF MatchAt(pattern, content, i)
    THEN LET rest == SubnFrom(pattern, replacement, content, i + Len(pattern))
         IN  [content |-> replacement \o rest.content,
              number_of_subs |-> rest.number_of_subs + 1]
    ELSE LET rest == SubnFrom(pattern, replacement, content, i + 1)
         IN  [content |-> <<content[i]>> \o rest.content,
              number_of_subs |-> rest.number_of_subs]

\* as Subn, but only the leftmost match is replaced (subn with count=1)
SubnFirstOnly(pattern, replacement, content) ==
    IF \E i \in 1..Len(content) : MatchAt(pattern, content, i)
    THEN LET i == CHOOSE k \in 1..Len(content) :
                      /\ MatchAt(pattern, content, k)
                      /\ \A j \in 1..(k - 1) : ~MatchAt(pattern, content, j)
         IN  [content |-> SubSeq(content, 1, i - 1) \o replacement
                              \o SubSeq(content, i + Len(pattern), Len(content)),
              number_of_subs |-> 1]
    ELSE [content |-> content, number_of_subs |-> 0]

Subn(pattern, replacement, content) == SubnFrom(pattern, replacement, content, 1)

\* as RegexLoop, but file_subs is assigned, not added to: it ends as the
\* count of the last rule
RECURSIVE RegexLoopLastCount(_, _, _, _)
RegexLoopLastCount(rules, k, content, file_subs) ==
    IF k > Len(rules)
    THEN [content |-> content, file_subs |-> file_subs]
    ELSE LET r == Subn(rules[k].pattern, rules[k].replacement, content)
         IN  RegexLoopLastCount(rules, k + 1, r.content, r.number_of_subs)

\* lines 182-186: the loop over regex_list from rule k on
RECURSIVE RegexLoop(_, _, _, _)
RegexLoop(rules, k, content, file_subs) ==
    IF k > Len(rules)
    THEN [content |-> content, file_subs |-> file_subs]
    ELSE LET r == Subn(rules[k].pattern, rules[k].replacement, content)
         IN  RegexLoop(rules, k + 1, r.content, file_subs + r.number_of_subs)

\* line 187: the file is rewritten
MustWrite(file_subs) == file_subs > 0

\* line 191: the no-match warning is logged
MustWarn(file_subs, warn) == ~MustWrite(file_subs) /\ warn

\* lines 178-192: one iteration of the loop over file_list
SubstituteFile ==
    /\ UNCHANGED <<rxvars, patchvars, sbvars>>
    /\ pc = "substitute"
    /\ file_list # <<>>
    /\ files[Head(file_list)].exists
    /\ LET path == Head(file_list)
           content == files[path].content
           result == RegexLoop(regex_list, 1, content, 0)
           wrote == MustWrite(result.file_subs)
           after == IF wrote THEN result.content ELSE content
       IN  /\ files' = [files EXCEPT ![path].content = after]
           /\ sub_log' = Append(sub_log,
                  [run |-> run, path |-> path, event |-> "processed",
                   before |-> content, after |-> after,
                   file_subs |-> result.file_subs, wrote |-> wrote,
                   warned |-> MustWarn(result.file_subs, log_warnings)])
    /\ file_list' = Tail(file_list)
    /\ UNCHANGED <<pc, exception, srcvars, regex_list, targets, log_warnings, run>>

\* an except branch that logs the path and goes on to the next file
SubstituteFileSwallowed ==
    /\ UNCHANGED <<rxvars, patchvars, sbvars>>
    /\ pc = "substitute"
    /\ file_list # <<>>
    /\ ~files[Head(file_list)].exists
    /\ sub_log' = Append(sub_log,
           [run |-> run, path |-> Head(file_list), event |-> "error",
            before |-> <<>>, after |-> <<>>, file_subs |-> 0,
            wrote |-> FALSE, warned |-> FALSE])
    /\ file_list' = Tail(file_list)
    /\ UNCHANGED <<pc, exception, srcvars, regex_list, files, targets, log_warnings, run>>

\* lines 180 and 193-195: the file cannot be opened; the path is logged and
\* the exception is raised again
SubstituteFileFails ==
    /\ UNCHANGED <<rxvars, patchvars, sbvars>>
    /\ pc = "substitute"
    /\ file_list # <<>>
    /\ ~files[Head(file_list)].exists
    /\ sub_log' = Append(sub_log,
           [run |-> run, path |-> Head(file_list), event |-> "error",
            before |-> <<>>, after |-> <<>>, file_subs |-> 0,
            wrote |-> FALSE, warned |-> FALSE])
    /\ Raise("Exception thrown for path")
    /\ UNCHANGED <<srcvars, regex_list, files, targets, file_list, log_warnings, run>>

\* line 178: file_list is exhausted and _domain_substitute returns
SubstituteReturn ==
    /\ pc = "substitute"
    /\ file_list = <<>>
    /\ pc' = "substituted"
    /\ UNCHANGED <<exception, srcvars, subvars, rxvars, patchvars, sbvars>>

\* _domain_substitute is called again with the same arguments
SubstituteAgain ==
    /\ UNCHANGED <<rxvars, patchvars, sbvars>>
    /\ pc = "substituted"
    /\ run < MaxRuns
    /\ run' = run + 1
    /\ file_list' = targets
    /\ pc' = "substitute"
    /\ UNCHANGED <<exception, srcvars, regex_list, files, targets, log_warnings, sub_log>>

\* the defaults of setup_chromium_source (line 289)
DefaultArgs ==
    [check_if_exists |-> TRUE, force_download |-> FALSE,
     check_integrity |-> TRUE, extract_archive |-> TRUE,
     use_cleaning_list |-> TRUE, archive_path |-> "None", hashes_path |-> "None"]

SubstInit ==
    /\ pc = "substitute"
    /\ exception = "none"
    /\ args = DefaultArgs
    /\ SourceIdle
    /\ RegexIdle
    /\ PatchIdle
    /\ SandboxIdle
    /\ regex_list \in RuleLists
    /\ targets \in SeqsUpTo(Paths, MaxTargets)
    /\ files \in {fs \in [Paths -> FileStatesOnDisk] :
                      \A p \in Paths \ Range(targets) : fs[p] = UntargetedFile}
    /\ file_list = targets
    /\ log_warnings \in BOOLEAN
    /\ run = 1
    /\ sub_log = <<>>

SubstNext ==
    \/ SubstituteFile
    \/ SubstituteFileFails
    \/ SubstituteReturn
    \/ SubstituteAgain

SpecSubst == SubstInit /\ [][SubstNext]_vars

(***************************************************************************)
(* Claims about _domain_substitute, verified under SpecSubst.               *)
(***************************************************************************)
\* the pattern occurs somewhere in content
Occurs(pattern, content) == \E i \in 1..Len(content) : MatchAt(pattern, content, i)

\* no rule's replacement re-matches that rule's own pattern
WellFormed(rules) ==
    \A k \in 1..Len(rules) : ~Occurs(rules[k].pattern, rules[k].replacement)

\* every replacement is non-empty and shares no byte with any pattern of
\* the list
ReplacementsAvoidPatterns(rules) ==
    \A k \in 1..Len(rules) :
        /\ rules[k].replacement # <<>>
        /\ \A j \in 1..Len(rules) :
              Range(rules[k].replacement) \cap Range(rules[j].pattern) = {}

\* every iteration of a run after the first made no substitution and left
\* its file as it was
LaterRunsChangeNothing ==
    \A i \in 1..Len(sub_log) :
        (sub_log[i].run >= 2 /\ sub_log[i].event = "processed") =>
            /\ sub_log[i].file_subs = 0
            /\ sub_log[i].after = sub_log[i].before

RECURSIVE ContentAfter(_, _, _)
ContentAfter(rules, k, content) ==
    IF k = 0
    THEN content
    ELSE Subn(rules[k].pattern, rules[k].replacement,
              ContentAfter(rules, k - 1, content)).content

\* the substitutions the first k rules made, summed
RECURSIVE SubsThrough(_, _, _)
SubsThrough(rules, k, content) ==
    IF k = 0
    THEN 0
    ELSE SubsThrough(rules, k - 1, content)
           + Subn(rules[k].pattern, rules[k].replacement,
                  ContentAfter(rules, k - 1, content)).number_of_subs

\* C6: for each target file every rule is applied once in list order to the
\* output of the rule before it and the counts are summed; the file is
\* overwritten with the final content if and only if the sum is positive;
\* with a sum of zero the file stays as it was and the no-match warning is
\* logged if and only if log_warnings is true.  The bytes on disk are those
\* the last iteration over the path left.
C6_PerFileSubstitution ==
    \A i \in 1..Len(sub_log) :
        sub_log[i].event = "processed" =>
            LET e == sub_log[i]
                total == SubsThrough(regex_list, Len(regex_list), e.before)
                final == ContentAfter(regex_list, Len(regex_list), e.before)
            IN  /\ e.file_subs = total
                /\ e.wrote <=> total > 0
                /\ e.wrote => e.after = final
                /\ ~e.wrote => e.after = e.before
                /\ e.warned <=> (total = 0 /\ log_warnings)
                /\ (\A j \in (i + 1)..Len(sub_log) : sub_log[j].path # e.path)
                      => files[e.path].content = e.after

\* one call has rewritten a file in which both of two rules substituted and
\* has warned about another file in which no rule matched
C6_Witness ==
    /\ Len(regex_list) = 2
    /\ \E i, j \in 1..Len(sub_log) :
          /\ sub_log[i].run = 1
          /\ sub_log[j].run = 1
          /\ sub_log[i].wrote
          /\ sub_log[i].file_subs = 2
          /\ Subn(regex_list[1].pattern, regex_list[1].replacement,
                  sub_log[i].before).number_of_subs = 1
          /\ sub_log[i].after # sub_log[i].before
          /\ sub_log[j].warned
          /\ sub_log[j].after = sub_log[j].before

(***************************************************************************)
(* _get_parsed_domain_regexes                                              *)
(***************************************************************************)
\* the bytes of a domain_regex_list line
RegexLineBytes == {"a", "#"}

RegexLines == SeqsUpTo(RegexLineBytes, MaxRegexLineLen)

RegexCommonFiles == SeqsUpTo(RegexLines, MaxRegexLines)

RegexPlatformFiles ==
    {NoPlatformFile} \cup {[exists |-> TRUE, lines |-> <<l>>] : l \in RegexLines}

HasHash(line) == \E i \in 1..Len(line) : line[i] = "#"

FirstHash(line) ==
    CHOOSE i \in 1..Len(line) :
        line[i] = "#" /\ \A j \in 1..(i - 1) : line[j] # "#"

\* line 170: expression.split(b'#'), a new field at every '#'
RECURSIVE SplitHash(_)
SplitHash(line) ==
    IF ~HasHash(line)
    THEN <<line>>
    ELSE <<SubSeq(line, 1, FirstHash(line) - 1)>>
             \o SplitHash(SubSeq(line, FirstHash(line) + 1, Len(line)))

\* lines 169-171: the loop over the lines from line k on; a line with no
\* '#' has no expression[1] and ends the loop with an IndexError
RECURSIVE ParseLoop(_, _, _)
ParseLoop(lines, k, cache) ==
    IF k > Len(lines)
    THEN [rules |-> cache, ok |-> TRUE]
    ELSE LET expression == SplitHash(lines[k])
         IN  IF Len(expression) < 2
             THEN [rules |-> cache, ok |-> FALSE]
             ELSE ParseLoop(lines, k + 1,
                      Append(cache, [pattern |-> expression[1],
                                     replacement |-> expression[2]]))

\* lines 167-172 with the cache empty: what the call leaves in the cache
ParseRegexFile(file) ==
    ParseLoop(ReadListResource(file.common, file.platform), 1, <<>>)

\* lines 166-172: the first call parses the regex list into the cache
ParseDomainRegexes ==
    /\ pc \in {"regex", "error"}
    /\ parse_calls < MaxParseCalls
    /\ ~domain_regex_cache.parsed
    /\ parse_calls' = parse_calls + 1
    /\ LET r == ParseRegexFile(domain_regex_file)
       IN  /\ domain_regex_cache' = [parsed |-> TRUE, rules |-> r.rules]
           /\ IF r.ok
              THEN /\ regex_list' = r.rules
                   /\ pc' = "regex"
                   /\ exception' = "none"
              ELSE /\ Raise("IndexError: list index out of range")
                   /\ UNCHANGED regex_list
    /\ UNCHANGED <<srcvars, files, targets, file_list, log_warnings, run,
                   sub_log, domain_regex_file, patchvars, sbvars>>

\* lines 167 and 172: a later call returns the cache as it is
ReturnCachedRegexes ==
    /\ pc \in {"regex", "error"}
    /\ parse_calls < MaxParseCalls
    /\ domain_regex_cache.parsed
    /\ parse_calls' = parse_calls + 1
    /\ regex_list' = domain_regex_cache.rules
    /\ pc' = "regex"
    /\ exception' = "none"
    /\ UNCHANGED <<srcvars, files, targets, file_list, log_warnings, run,
                   sub_log, domain_regex_file, domain_regex_cache, patchvars, sbvars>>

RegexInit ==
    /\ pc = "regex"
    /\ exception = "none"
    /\ args = DefaultArgs
    /\ SourceIdle
    /\ SubstIdle
    /\ domain_regex_file \in [common : RegexCommonFiles, platform : RegexPlatformFiles]
    /\ domain_regex_cache = [parsed |-> FALSE, rules |-> <<>>]
    /\ parse_calls = 0
    /\ PLATFORM_RESOURCES \in {"None", "set"}
    /\ domain_regex_file.platform.exists => PLATFORM_RESOURCES = "set"
    /\ platform_patches = "absent"
    /\ common_order = <<>>
    /\ platform_order = <<>>
    /\ run_domain_substitution = FALSE
    /\ out_files = {}
    /\ out_order = <<>>
    /\ SandboxIdle

RegexNext ==
    \/ ParseDomainRegexes
    \/ ReturnCachedRegexes

SpecRegex == RegexInit /\ [][RegexNext]_vars

(***************************************************************************)
(* Claims about _get_parsed_domain_regexes, verified under SpecRegex.       *)
(***************************************************************************)
\* C9: each rule in the cache comes from its line split on the first '#'
\* only: the pattern is everything before the first '#' and the replacement
\* is everything after it, later '#' bytes included.
C9_SplitOnFirstHash ==
    LET lines == ReadListResource(domain_regex_file.common, domain_regex_file.platform)
    IN  \A k \in 1..Len(domain_regex_cache.rules) :
            /\ domain_regex_cache.rules[k].pattern
                   = SubSeq(lines[k], 1, FirstHash(lines[k]) - 1)
            /\ domain_regex_cache.rules[k].replacement
                   = SubSeq(lines[k], FirstHash(lines[k]) + 1, Len(lines[k]))

(***************************************************************************)
(* _generate_patches                                                       *)
(***************************************************************************)
\* the characters of a patch_order file: a letter of a name, or the newline
NL == "\n"

OrderChars == {"p", NL}

OrderTexts == SeqsUpTo(OrderChars, MaxOrderLen)

\* the files of COMMON_RESOURCES/patches and of PLATFORM_RESOURCES/patches
CommonPatchFiles == {"patch_order", "common.patch"}

PlatformPatchFiles(state) ==
    IF state = "with_order"
    THEN {"patch_order", "platform.patch"}
    ELSE {"platform.patch"}

\* lines 197-214: the order is read, the trees are copied, the order written
GeneratePatches ==
    /\ pc = "patches"
    /\ UNCHANGED <<srcvars, subvars, rxvars, PLATFORM_RESOURCES, platform_patches,
                   common_order, platform_order, run_domain_substitution, sbvars>>
    /\ IF PLATFORM_RESOURCES = "None"
       THEN /\ Raise("TypeError: unsupported operand type(s) for /")
            /\ UNCHANGED <<out_files, out_order>>
       ELSE LET platform_patches_exist == platform_patches = "with_order"
                new_patch_order == IF platform_patches_exist
                                   THEN common_order \o platform_order
                                   ELSE common_order
                after_common == (out_files \cup CommonPatchFiles) \ {"patch_order"}
                after_platform == after_common \cup PlatformPatchFiles(platform_patches)
            IN  IF platform_patches = "absent"
                THEN /\ Raise("DistutilsFileError: cannot copy tree, not a directory")
                     /\ out_files' = after_common
                     /\ UNCHANGED out_order
                ELSE IF "patch_order" \notin after_platform
                THEN /\ Raise("FileNotFoundError: patch_order")
                     /\ out_files' = after_platform
                     /\ UNCHANGED out_order
                ELSE /\ out_files' = after_platform
                     /\ out_order' = new_patch_order
                     /\ UNCHANGED exception
                     /\ pc' = IF run_domain_substitution
                              THEN "patch_substitution"
                              ELSE "patched"

\* lines 215-216: the arguments of the _domain_substitute call are
\* evaluated: the regex list is parsed (or taken from the cache), then
\* self.sandbox_patches is read, an attribute no code of the class sets
PatchSubstitution ==
    /\ pc = "patch_substitution"
    /\ UNCHANGED <<srcvars, subvars, domain_regex_file, patchvars, sbvars>>
    /\ parse_calls' = parse_calls + 1
    /\ IF domain_regex_cache.parsed
       THEN /\ UNCHANGED domain_regex_cache
            /\ Raise("AttributeError: no attribute sandbox_patches")
       ELSE LET r == ParseRegexFile(domain_regex_file)
            IN  /\ domain_regex_cache' = [parsed |-> TRUE, rules |-> r.rules]
                /\ IF r.ok
                   THEN Raise("AttributeError: no attribute sandbox_patches")
                   ELSE Raise("IndexError: list index out of range")

PatchInit ==
    /\ pc = "patches"
    /\ exception = "none"
    /\ args = DefaultArgs
    /\ SourceIdle
    /\ SubstIdle
    /\ domain_regex_file \in [common : RegexCommonFiles, platform : {NoPlatformFile}]
    /\ domain_regex_cache = [parsed |-> FALSE, rules |-> <<>>]
    /\ parse_calls = 0
    /\ PLATFORM_RESOURCES \in {"None", "set"}
    /\ platform_patches \in {"absent", "no_order", "with_order"}
    /\ PLATFORM_RESOURCES = "None" => platform_patches = "absent"
    /\ common_order \in OrderTexts
    /\ platform_order \in OrderTexts
    /\ platform_patches # "with_order" => platform_order = <<>>
    /\ run_domain_substitution \in BOOLEAN
    /\ out_files = {}
    /\ out_order = <<>>
    /\ SandboxIdle

PatchNext ==
    \/ GeneratePatches
    \/ PatchSubstitution

SpecPatches == PatchInit /\ [][PatchNext]_vars

(***************************************************************************)
(* Claims about _generate_patches, verified under SpecPatches.              *)
(***************************************************************************)
\* the number of lines of a text: its newlines, and one more for a last
\* line that no newline ends
LineCount(text) ==
    Cardinality({i \in 1..Len(text) : text[i] = NL})
        + (IF text # <<>> /\ text[Len(text)] # NL THEN 1 ELSE 0)

\* a platform override exists: PLATFORM_RESOURCES is set and its patch
\* directory holds a patch_order file
PlatformOverride == PLATFORM_RESOURCES = "set" /\ platform_patches = "with_order"

\* C7: when _generate_patches is over, output_dir holds a patch_order file
\* whose line count is that of the common order plus that of the platform
\* order when a platform override exists, and that of the common order
\* alone when none exists.
C7_OrderLineCount ==
    pc \in {"patched", "patch_substitution", "error"} =>
        /\ "patch_order" \in out_files
        /\ LineCount(out_order) =
               IF PlatformOverride
               THEN LineCount(common_order) + LineCount(platform_order)
               ELSE LineCount(common_order)

\* the '*.patch' files that _generate_patches has put under output_dir
PatchFilesWritten == out_files \ {"patch_order"}

\* the paths the substitution engine has opened so far
SubstitutedPaths == {sub_log[i].path : i \in 1..Len(sub_log)}

\* C11: when _generate_patches was called with run_domain_substitution=True
\* and has written the patch tree and the patch-order file, no error ends
\* the call (a well-formed regex list given), and once the call is over the
\* substitution engine has run over exactly the '*.patch' files under
\* output_dir with no no-match warning.
C11_PatchSubstitutionCompletes ==
    (/\ run_domain_substitution
     /\ "patch_order" \in out_files
     /\ ParseRegexFile(domain_regex_file).ok) =>
        /\ pc # "error"
        /\ pc = "patched" =>
               /\ SubstitutedPaths = PatchFilesWritten
               /\ \A i \in 1..Len(sub_log) : ~sub_log[i].warned

(***************************************************************************)
(* setup_build_sandbox                                                     *)
(***************************************************************************)
\* the lines of a domain_substitution_list file: a one-part relative path,
\* or an empty line
SubstListLines == {<<>>} \cup {<<p>> : p \in Paths}

SubstListCommonFiles == SeqsUpTo(SubstListLines, MaxTargets)

SubstListPlatformFiles ==
    {NoPlatformFile} \cup {[exists |-> TRUE, lines |-> <<l>>] : l \in SubstListLines}

\* line 356: sandbox_root / Path(*PurePosixPath(x).parts), for each line x
\* that _read_list_resource returned; a path is named by its one part
FileListGenerator(lines) == [i \in 1..Len(lines) |-> lines[i][1]]

\* the lines of the domain_regex_list of a sandbox run: a rule that deletes
\* "a", a rule that rewrites "a" to itself, and a line with no '#'
SandboxRegexLines == {<<"a", "#">>, <<"a", "#", "a">>, <<"a", "a">>}

SandboxRegexFiles == SeqsUpTo(SandboxRegexLines, MaxRegexLines)

\* lines 352-357: the arguments of the _domain_substitute call are evaluated
\* (the regex list is parsed, the generator is made) and the loop is entered
\* with log_warnings at its default
SetupBuildSandbox ==
    /\ pc = "sandbox"
    /\ UNCHANGED <<srcvars, files, targets, sub_log, domain_regex_file, patchvars, sbvars>>
    /\ IF ~run_domain_substitution
       THEN /\ pc' = "sandbox_done"
            /\ UNCHANGED <<exception, regex_list, file_list, log_warnings, run,
                           domain_regex_cache, parse_calls>>
       ELSE LET r == IF domain_regex_cache.parsed
                     THEN [rules |-> domain_regex_cache.rules, ok |-> TRUE]
                     ELSE ParseRegexFile(domain_regex_file)
            IN  /\ parse_calls' = parse_calls + 1
                /\ domain_regex_cache' = [parsed |-> TRUE, rules |-> r.rules]
                /\ IF r.ok
                   THEN /\ regex_list' = r.rules
                        /\ file_list' = targets
                        /\ log_warnings' = TRUE
                        /\ run' = 1
                        /\ pc' = "substitute"
                        /\ UNCHANGED exception
                   ELSE /\ Raise("IndexError: list index out of range")
                        /\ UNCHANGED <<regex_list, file_list, log_warnings, run>>

\* line 358: _domain_substitute returned, the flag is set
SetupBuildSandboxReturn ==
    /\ pc = "substituted"
    /\ ran_domain_substitution' = TRUE
    /\ pc' = "sandbox_done"
    /\ UNCHANGED <<exception, srcvars, subvars, rxvars, patchvars>>

SandboxInit ==
    /\ pc = "sandbox"
    /\ exception = "none"
    /\ args = DefaultArgs
    /\ SourceIdle
    /\ SandboxIdle
    /\ domain_regex_file \in [common : SandboxRegexFiles, platform : {NoPlatformFile}]
    /\ domain_regex_cache = [parsed |-> FALSE, rules |-> <<>>]
    /\ parse_calls = 0
    /\ PLATFORM_RESOURCES \in {"None", "set"}
    /\ platform_patches = "absent"
    /\ common_order = <<>>
    /\ platform_order = <<>>
    /\ run_domain_substitution \in BOOLEAN
    /\ out_files = {}
    /\ out_order = <<>>
    /\ regex_list = <<>>
    /\ \E common \in SubstListCommonFiles, platform \in SubstListPlatformFiles :
          /\ PLATFORM_RESOURCES = "None" => platform = NoPlatformFile
          /\ targets = FileListGenerator(ReadListResource(common, platform))
    /\ files \in {fs \in [Paths -> FileStatesOnDisk] :
                      \A p \in Paths \ Range(targets) : fs[p] = UntargetedFile}
    /\ file_list = <<>>
    /\ log_warnings = TRUE
    /\ run = 0
    /\ sub_log = <<>>

SandboxNext ==
    \/ SetupBuildSandbox
    \/ SubstituteFile
    \/ SubstituteFileFails
    \/ SubstituteReturn
    \/ SetupBuildSandboxReturn

SpecSandbox == SandboxInit /\ [][SandboxNext]_vars

(***************************************************************************)
(* Claims about a failing file in setup_build_sandbox, verified under       *)
(* SpecSandbox.                                                            *)
(***************************************************************************)
\* the last iteration before the k-th that processed path p, or 0
LastProcessedBefore(p, k) ==
    LET js == {j \in 1..(k - 1) : sub_log[j].path = p /\ sub_log[j].event = "processed"}
    IN  IF js = {} THEN 0 ELSE CHOOSE j \in js : \A i \in js : i <= j

\* the k-th iteration failed: the call ended in the error that names the
\* k-th path, no later iteration took place, each file an earlier iteration
\* processed holds what that iteration left, and the flag is still False
AbortedAt(k) ==
    /\ pc = "error"
    /\ exception = "Exception thrown for path"
    /\ sub_log[k].path = targets[k]
    /\ Len(sub_log) = k
    /\ Len(file_list) = Len(targets) - k + 1
    /\ \A p \in Paths :
          LastProcessedBefore(p, k) # 0 =>
              files[p].content = sub_log[LastProcessedBefore(p, k)].after
    /\ ~ran_domain_substitution

\* a step changes a file only while no iteration has failed, and then only
\* the file the loop is at, in an iteration that the log records
OnlyTheOpenedFileChanges ==
    \A p \in Paths :
        files'[p] # files[p] =>
            /\ pc = "substitute"
            /\ \A k \in 1..Len(sub_log) : sub_log[k].event # "error"
            /\ file_list # <<>>
            /\ p = Head(file_list)
            /\ Len(sub_log') = Len(sub_log) + 1
            /\ sub_log'[Len(sub_log')].path = p
            /\ sub_log'[Len(sub_log')].event = "processed"

====
